---------------------------- MODULE Spec2Model ----------------------------
(***************************************************************************)
(* Session-authentication lifecycle of the chat application: token         *)
(* issuance, lookup-id derivation, expiry, rolling renewal, the request    *)
(* middleware (hooks.server.ts `handle`) and the auth route handlers.      *)
(*                                                                         *)
(* Time is measured in days.  Every request is one asynchronous task; the  *)
(* only suspension points are the store operations, so each action below   *)
(* is the synchronous stretch of code that ends with one store operation.  *)
(***************************************************************************)
EXTENDS Integers, Sequences, FiniteSets, TLC

\* ------------------------------------------------------------------ bounds
MaxTime == 45
TickDays == 15
MaxTokens == 1
\* How many tokens generateSessionToken produces in the runs of SpecMulti, where
\* one client or several hold more than one session; it is also the size of the
\* set of token strings.
MaxTokensMulti == 2
\* The chat ids a chat page can be opened for, and the longest list of messages
\* a chat comes with.
MaxChats == 3
MaxMessages == 2

\* ------------------------------------------------------- program constants
\* createSession: Date.now() + 1000 * 60 * 60 * 24 * 30   (30 days)
SESSION_LIFETIME == 30
\* validateSessionToken: session.expiresAt.getTime() - ms('15d')
RENEWAL_WINDOW == 15

VARIABLES
    clock,      \* Date.now(), in days
    sessions,   \* the session table: lookup id -> [userId, expiresAt]
    issued,     \* how many tokens generateSessionToken has produced
    req,        \* the requests in flight, one record per task slot
    signedOut,  \* history: tokens carried by a completed sign-out none of whose store calls failed
    jar,        \* per issued token: the session cookie held by the client it was sent to
    issuedTo,   \* history: per token, the user whose sign-in or sign-up sent it out
    page        \* the chat page (chat/[chatId]/+page.svelte) open in a browser

serverVars == <<clock, sessions, issued, req, signedOut, jar, issuedTo>>
vars == <<clock, sessions, issued, req, signedOut, jar, issuedTo, page>>

\* Two request tasks can be in flight at a time.
Reqs == {1, 2}
Users == {"u1", "u2"}

\* ------------------------------------------------------------------ tokens
\* Token strings are numbered: 0 is the empty string, 1..MaxTokensMulti are the
\* strings generateSessionToken returns (fresh random 32 bytes, never
\* repeated), JunkToken is a string that was never issued (malformed or
\* forged), LiteralToken is the string 'token'.
EmptyString == 0
JunkToken == MaxTokensMulti + 1
LiteralToken == MaxTokensMulti + 2
IssuedTokens == 1..MaxTokensMulti

\* The Cookie header of a request: <<>> when no session cookie is sent,
\* <<t>> when the cookie carries the string t.
NoCookie == <<>>
CookieValues == {NoCookie} \cup {<<t>> : t \in {EmptyString, JunkToken} \cup IssuedTokens}

\* No digest at all: the session id is the token string itself.
sha256Plain(token) == <<"plain", token>>

\* A digest that keeps too little of the token: every token maps to one id.
sha256Colliding(token) == <<"sha256", 1>>

\* encodeHexLowerCase(sha256(new TextEncoder().encode(token))): deterministic,
\* collision-free on the tokens in play, and never equal to the token.
sha256(token) == <<"sha256", token>>

\* ----------------------------------------------------------------- records
NullUser == "null"
NullSession == [id |-> <<>>, userId |-> NullUser, expiresAt |-> 0]
NullLocals == [user |-> NullUser, session |-> NullSession]

\* deleteSessionTokenCookie without maxAge: 0.
ClearedCookieNoMaxAge ==
    [name |-> "session", value |-> LiteralToken, httpOnly |-> TRUE,
     sameSite |-> "lax", path |-> "/", maxAge |-> -1, expires |-> -1]

\* The cookie written by deleteSessionTokenCookie; -1 stands for an option
\* that is not passed.
ClearedCookie ==
    [name |-> "session", value |-> LiteralToken, httpOnly |-> TRUE,
     sameSite |-> "lax", path |-> "/", maxAge |-> 0, expires |-> -1]

\* The cookie written by setSessionTokenCookie(cookies, token, expiresAt).
SessionCookie(token, expiresAt) ==
    [name |-> "session", value |-> token, httpOnly |-> TRUE,
     sameSite |-> "lax", path |-> "/", maxAge |-> -1, expires |-> expiresAt]

IdleReq ==
    [pc |-> "idle", kind |-> "none", cookie |-> NoCookie,
     lookup |-> "none",        \* outcome of getFullSession: found / notfound / unavailable
     snap |-> NullSession,     \* the session row getFullSession returned
     user |-> NullUser,        \* the user row joined to it
     now |-> -1,               \* Date.now() read by the expiry and renewal tests
     renewTo |-> -1,           \* expiry the renewal asks the store to write
     result |-> "none",        \* of validateSessionToken: valid / anonymous / err
     failed |-> "none",        \* the store call of validation that failed, if any
     locals |-> NullLocals,    \* event.locals
     mwClear |-> FALSE,        \* handle called deleteSessionTokenCookie
     mwOps |-> <<>>,           \* store writes issued by validateSessionToken
     hOps |-> <<>>,            \* store writes issued by the route handler
     hFailed |-> FALSE,        \* a store call of the route handler failed
     setCookies |-> <<>>,      \* cookies.set calls, in order
     status |-> 0,             \* HTTP status of the response
     body |-> "none",
     newToken |-> 0,           \* the token generateSessionToken returned (0: none)
     newSession |-> NullSession, \* the session createSession built
     staleAtLookup |-> FALSE,  \* the token had been signed out when lookup ran
     expiredAtLookup |-> FALSE] \* a request in flight had found the session expired
                               \* when lookup ran

\* ---------------------------------------------------------------- chat page
ChatIds == 1..MaxChats
NullChat == [id |-> 0, userId |-> NullUser]
NoError == "null"

\* The component's $state at construction, before onMount's callback runs:
\*   chat = null, messages = [], user = null, loading = true, error = null
MountedPage(chatId) ==
    [pc |-> "mount",          \* where the callback of onMount stands
     chatId |-> chatId,       \* page.params.chatId
     chat |-> NullChat, messages |-> <<>>, user |-> NullUser,
     loading |-> TRUE, error |-> NoError,
     goneTo |-> "none",       \* the target of goto(), if it was called
     fetchThrew |-> FALSE,    \* history: a fetch() promise rejected
     bodyThrew |-> FALSE,     \* history: a response.json() promise rejected
     chatStatus |-> 0]        \* history: the status of the chat response (0: none)

\* No chat page is open.
NoPage == [MountedPage(0) EXCEPT !.pc = "closed", !.loading = FALSE]

TypeOK ==
    /\ clock \in 0..MaxTime
    /\ issued \in 0..MaxTokensMulti
    /\ DOMAIN sessions \subseteq {sha256(t) : t \in IssuedTokens}
    /\ \A id \in DOMAIN sessions :
          /\ sessions[id].userId \in Users
          /\ sessions[id].expiresAt \in 0..(MaxTime + SESSION_LIFETIME)
    /\ signedOut \subseteq IssuedTokens
    /\ DOMAIN req = Reqs
    /\ DOMAIN jar = IssuedTokens
    /\ issuedTo \in [IssuedTokens -> Users \cup {NullUser}]
    /\ page.pc \in {"closed", "mount", "userFetch", "userJson", "chatFetch", "chatJson", "done"}
    /\ page.loading \in BOOLEAN
    /\ page.user \in Users \cup {NullUser}

Init ==
    /\ clock = 0
    /\ sessions = << >>
    /\ issued = 0
    /\ req = [r \in Reqs |-> IdleReq]
    /\ signedOut = {}
    /\ jar = [t \in IssuedTokens |-> NoCookie]
    /\ issuedTo = [t \in IssuedTokens |-> NullUser]
    /\ page = NoPage

\* ------------------------------------------------------------------- store
\* The session-store queries of $lib/server/db/queries (Session Store Adapter).

\* get(lookupId) -> Session | absent, joined with the owning user.
getFullSession(store, sessionId) ==
    IF sessionId \in DOMAIN store
    THEN [found |-> TRUE,
          session |-> [id |-> sessionId, userId |-> store[sessionId].userId,
                       expiresAt |-> store[sessionId].expiresAt],
          user |-> store[sessionId].userId]
    ELSE [found |-> FALSE, session |-> NullSession, user |-> NullUser]

\* put(session): inserts or replaces the record keyed by the lookup id.
createSessionDb(store, session) ==
    [id \in DOMAIN store \cup {session.id} |->
        IF id = session.id
        THEN [userId |-> session.userId, expiresAt |-> session.expiresAt]
        ELSE store[id]]

\* delete(lookupId): removes the record; deleting an absent record is no error.
deleteSession(store, sessionId) ==
    [id \in DOMAIN store \ {sessionId} |-> store[id]]

\* A soft invalidation: the row stays and is marked expired.
invalidateSessionSoft(store, sessionId) ==
    IF sessionId \in DOMAIN store
    THEN [store EXCEPT ![sessionId].expiresAt = 0]
    ELSE store

\* invalidateSession(sessionId): the delete used by sign-out.
invalidateSession(store, sessionId) == deleteSession(store, sessionId)

\* An update that writes the row back when it is gone (an upsert).
extendSessionUpsert(store, sessionId, newExpiresAt) ==
    [id \in DOMAIN store \cup {sessionId} |->
        IF id = sessionId
        THEN [userId |-> IF id \in DOMAIN store THEN store[id].userId ELSE "u1",
              expiresAt |-> newExpiresAt]
        ELSE store[id]]

\* A last-write-wins update: the stored expiry is overwritten.
extendSessionLastWriteWins(store, sessionId, newExpiresAt) ==
    IF sessionId \in DOMAIN store
    THEN [store EXCEPT ![sessionId].expiresAt = newExpiresAt]
    ELSE store

\* updateExpiry(lookupId, newExpiresAt): monotonic update; a silent no-op
\* when the record no longer exists.
extendSession(store, sessionId, newExpiresAt) ==
    IF sessionId \in DOMAIN store
    THEN [store EXCEPT ![sessionId].expiresAt =
            IF newExpiresAt > @ THEN newExpiresAt ELSE @]
    ELSE store

\* ----------------------------------------------------------------- policy
\* The expiry test with > in place of >=.
SessionExpiredStrict(now, expiresAt) == now > expiresAt

\* if (Date.now() >= session.expiresAt.getTime())
SessionExpired(now, expiresAt) == now >= expiresAt

\* The renewal test with the session lifetime in place of the 15-day window.
RenewalDueWholeLife(now, expiresAt) == now >= expiresAt - SESSION_LIFETIME

\* The renewal test with > in place of >=.
RenewalDueStrict(now, expiresAt) == now > expiresAt - RENEWAL_WINDOW

\* if (Date.now() >= session.expiresAt.getTime() - ms('15d'))
RenewalDue(now, expiresAt) == now >= expiresAt - RENEWAL_WINDOW

\* A session that lives only as long as the renewal window.
NewExpiryShort(now) == now + RENEWAL_WINDOW

\* new Date(Date.now() + 1000 * 60 * 60 * 24 * 30)
NewExpiry(now) == now + SESSION_LIFETIME

\* if (!sessionToken): no cookie, or a cookie with the empty string.
NoSessionToken(cookie) == IF cookie = NoCookie THEN TRUE ELSE cookie[1] = EmptyString

\* ------------------------------------------------------------- middleware
\* handle without the deleteSessionTokenCookie call of its else branch.
handleResultKeepsCookie(q, result) ==
    IF result = "valid"
    THEN [q EXCEPT !.result = result,
                   !.locals = [user |-> q.user, session |-> q.snap],
                   !.pc = "route"]
    ELSE [q EXCEPT !.result = result, !.locals = NullLocals, !.pc = "route"]

\* handle that fails closed: it answers 500 itself when the Err of
\* validateSessionToken comes from the session lookup being unavailable.
handleResultFailClosed(q, result) ==
    IF result = "valid"
    THEN [q EXCEPT !.result = result,
                   !.locals = [user |-> q.user, session |-> q.snap],
                   !.pc = "route"]
    ELSE IF result = "err" /\ q.lookup = "unavailable"
    THEN [q EXCEPT !.result = result, !.locals = NullLocals,
                   !.status = 500, !.body = "Internal server error", !.pc = "done"]
    ELSE [q EXCEPT !.result = result,
                   !.locals = NullLocals,
                   !.mwClear = TRUE,
                   !.setCookies = Append(@, ClearedCookie),
                   !.pc = "route"]

\* handle that answers 500 itself when validateSessionToken returns an Err,
\* instead of calling resolve(event).
handleResultErrIsFatal(q, result) ==
    IF result = "valid"
    THEN [q EXCEPT !.result = result,
                   !.locals = [user |-> q.user, session |-> q.snap],
                   !.pc = "route"]
    ELSE IF result = "err"
    THEN [q EXCEPT !.result = result, !.locals = NullLocals,
                   !.status = 500, !.body = "Internal server error", !.pc = "done"]
    ELSE [q EXCEPT !.result = result,
                   !.locals = NullLocals,
                   !.mwClear = TRUE,
                   !.setCookies = Append(@, ClearedCookie),
                   !.pc = "route"]

\* handle whose else branch resets locals.session and forgets locals.user.
handleResultKeepsUser(q, result) ==
    IF result = "valid"
    THEN [q EXCEPT !.result = result,
                   !.locals = [user |-> q.user, session |-> q.snap],
                   !.pc = "route"]
    ELSE [q EXCEPT !.result = result,
                   !.locals = [user |-> q.user, session |-> NullSession],
                   !.mwClear = TRUE,
                   !.setCookies = Append(@, ClearedCookie),
                   !.pc = "route"]

\* handle whose if branch sets locals.session and leaves locals.user null.
handleResultSessionWithoutUser(q, result) ==
    IF result = "valid"
    THEN [q EXCEPT !.result = result,
                   !.locals = [user |-> NullUser, session |-> q.snap],
                   !.pc = "route"]
    ELSE [q EXCEPT !.result = result,
                   !.locals = NullLocals,
                   !.mwClear = TRUE,
                   !.setCookies = Append(@, ClearedCookie),
                   !.pc = "route"]

\* handle, after `await validateSessionToken(sessionToken)`:
\*   if (result.isOk() && result.value.session) { locals := user, session }
\*   else { locals := null, null; deleteSessionTokenCookie(event.cookies) }
\*   return resolve(event)
handleResult(q, result) ==
    IF result = "valid"
    THEN [q EXCEPT !.result = result,
                   !.locals = [user |-> q.user, session |-> q.snap],
                   !.pc = "route"]
    ELSE [q EXCEPT !.result = result,
                   !.locals = NullLocals,
                   !.mwClear = TRUE,
                   !.setCookies = Append(@, ClearedCookie),
                   !.pc = "route"]

\* A client can send the empty string, a string of its own making, or a token
\* it received in a Set-Cookie header: one that generateSessionToken has
\* returned and whose sign-in is no longer waiting for createSession.
TokenKnownToClient(cookie) ==
    IF cookie = NoCookie THEN TRUE
    ELSE IF cookie[1] \notin IssuedTokens THEN TRUE
    ELSE /\ cookie[1] <= issued
         /\ \A q \in Reqs : ~(req[q].pc = "create" /\ req[q].newToken = cookie[1])

\* A request arrives: the framework calls handle({event, resolve}).  The route it
\* is for is read only by resolve(event), so it is drawn there.  Task slots are
\* interchangeable; they are taken in order.
Arrive(r) ==
    /\ req[r].pc = "idle"
    /\ \A q \in 1..(r - 1) : req[q].pc # "idle"
    /\ \E cookie \in CookieValues :
          /\ TokenKnownToClient(cookie)
          /\ req' = [req EXCEPT ![r] = [IdleReq EXCEPT !.pc = "handle", !.cookie = cookie]]
    /\ UNCHANGED <<clock, sessions, issued, signedOut, jar, issuedTo, page>>

\* handle that clears the cookie also when the request carries none.
HandleNoTokenClears(r) ==
    /\ req[r].pc = "handle"
    /\ NoSessionToken(req[r].cookie)
    /\ req' = [req EXCEPT ![r].locals = NullLocals, ![r].mwClear = TRUE,
                          ![r].setCookies = Append(@, ClearedCookie), ![r].pc = "route"]
    /\ UNCHANGED <<clock, sessions, issued, signedOut, jar, issuedTo, page>>

\* handle: const sessionToken = getSessionCookie(event); if (!sessionToken) {...}
HandleNoToken(r) ==
    /\ req[r].pc = "handle"
    /\ NoSessionToken(req[r].cookie)
    /\ req' = [req EXCEPT ![r].locals = NullLocals, ![r].pc = "route"]
    /\ UNCHANGED <<clock, sessions, issued, signedOut, jar, issuedTo, page>>

\* History: a request other than r, still in its middleware, has tested the
\* session with this id and found Date.now() >= expiresAt.
SeenExpired(r, sessionId) ==
    \E q \in Reqs \ {r} :
        /\ req[q].lookup = "found"
        /\ req[q].snap.id = sessionId
        /\ req[q].now >= req[q].snap.expiresAt

\* validateSessionToken: yield* getFullSession(sessionId), record found.
LookupFound(r) ==
    /\ req[r].pc = "handle"
    /\ ~NoSessionToken(req[r].cookie)
    /\ LET got == getFullSession(sessions, sha256(req[r].cookie[1])) IN
          /\ got.found
          /\ req' = [req EXCEPT ![r].lookup = "found",
                                ![r].snap = got.session,
                                ![r].user = got.user,
                                ![r].staleAtLookup = req[r].cookie[1] \in signedOut,
                                ![r].expiredAtLookup = SeenExpired(r, got.session.id),
                                ![r].pc = "check"]
    /\ UNCHANGED <<clock, sessions, issued, signedOut, jar, issuedTo, page>>

\* getFullSession finds no record: an Err leaves safeTry, handle takes its else branch.
LookupNotFound(r) ==
    /\ req[r].pc = "handle"
    /\ ~NoSessionToken(req[r].cookie)
    /\ ~getFullSession(sessions, sha256(req[r].cookie[1])).found
    /\ req' = [req EXCEPT ![r] =
                 handleResult([req[r] EXCEPT !.lookup = "notfound",
                                  !.staleAtLookup = req[r].cookie[1] \in signedOut],
                              "err")]
    /\ UNCHANGED <<clock, sessions, issued, signedOut, jar, issuedTo, page>>

\* getFullSession fails with StoreUnavailable: the same Err path.
LookupUnavailable(r) ==
    /\ req[r].pc = "handle"
    /\ ~NoSessionToken(req[r].cookie)
    /\ req' = [req EXCEPT ![r] =
                 handleResult([req[r] EXCEPT !.lookup = "unavailable",
                                  !.failed = "lookup",
                                  !.staleAtLookup = req[r].cookie[1] \in signedOut],
                              "err")]
    /\ UNCHANGED <<clock, sessions, issued, signedOut, jar, issuedTo, page>>

\* A renewal that adds the lifetime to the old expiry instead of to now.
CheckSessionAddsToExpiry(r) ==
    /\ req[r].pc = "check"
    /\ req' = [req EXCEPT ![r] =
         IF SessionExpired(clock, req[r].snap.expiresAt)
         THEN [req[r] EXCEPT !.now = clock,
                             !.mwOps = Append(@, <<"delete", req[r].snap.id>>),
                             !.pc = "delete"]
         ELSE IF RenewalDue(clock, req[r].snap.expiresAt)
         THEN [req[r] EXCEPT !.now = clock,
                             !.renewTo = req[r].snap.expiresAt + SESSION_LIFETIME,
                             !.mwOps = Append(@, <<"extend", req[r].snap.id>>),
                             !.pc = "extend"]
         ELSE handleResult([req[r] EXCEPT !.now = clock], "valid")]
    /\ UNCHANGED <<clock, sessions, issued, signedOut, jar, issuedTo, page>>

\* validateSessionToken without its expiry test: a row that was found is renewed
\* when due and returned.
CheckSessionNoExpiryTest(r) ==
    /\ req[r].pc = "check"
    /\ req' = [req EXCEPT ![r] =
         IF RenewalDue(clock, req[r].snap.expiresAt)
         THEN [req[r] EXCEPT !.now = clock,
                             !.renewTo = NewExpiry(clock),
                             !.mwOps = Append(@, <<"extend", req[r].snap.id>>),
                             !.pc = "extend"]
         ELSE handleResult([req[r] EXCEPT !.now = clock], "valid")]
    /\ UNCHANGED <<clock, sessions, issued, signedOut, jar, issuedTo, page>>

\* validateSessionToken after getFullSession has returned a row.  The two tests
\* run in one synchronous stretch and read the same day from Date.now():
\*   if (Date.now() >= session.expiresAt.getTime()) { yield* deleteSession(sessionId); ... }
\*   if (Date.now() >= session.expiresAt.getTime() - ms('15d')) { yield* extendSession(sessionId); }
\*   return ok({ session, user });
CheckSession(r) ==
    /\ req[r].pc = "check"
    /\ req' = [req EXCEPT ![r] =
         IF SessionExpired(clock, req[r].snap.expiresAt)
         THEN [req[r] EXCEPT !.now = clock,
                             !.mwOps = Append(@, <<"delete", req[r].snap.id>>),
                             !.pc = "delete"]
         ELSE IF RenewalDue(clock, req[r].snap.expiresAt)
         THEN [req[r] EXCEPT !.now = clock,
                             !.renewTo = NewExpiry(clock),
                             !.mwOps = Append(@, <<"extend", req[r].snap.id>>),
                             !.pc = "extend"]
         ELSE handleResult([req[r] EXCEPT !.now = clock], "valid")]
    /\ UNCHANGED <<clock, sessions, issued, signedOut, jar, issuedTo, page>>

\* deleteSession succeeds: return ok({ session: null, user: null }).
DeleteOk(r) ==
    /\ req[r].pc = "delete"
    /\ sessions' = deleteSession(sessions, req[r].snap.id)
    /\ req' = [req EXCEPT ![r] = handleResult(req[r], "anonymous")]
    /\ UNCHANGED <<clock, issued, signedOut, jar, issuedTo, page>>

\* deleteSession fails: yield* leaves safeTry with the Err.
DeleteFail(r) ==
    /\ req[r].pc = "delete"
    /\ req' = [req EXCEPT ![r] = handleResult([req[r] EXCEPT !.failed = "delete"], "err")]
    /\ UNCHANGED <<clock, sessions, issued, signedOut, jar, issuedTo, page>>

\* extendSession succeeds (also as a no-op on a vanished record).
ExtendOk(r) ==
    /\ req[r].pc = "extend"
    /\ sessions' = extendSession(sessions, req[r].snap.id, req[r].renewTo)
    /\ req' = [req EXCEPT ![r] = handleResult(req[r], "valid")]
    /\ UNCHANGED <<clock, issued, signedOut, jar, issuedTo, page>>

\* extendSession fails: yield* leaves safeTry with the Err.
ExtendFail(r) ==
    /\ req[r].pc = "extend"
    /\ req' = [req EXCEPT ![r] = handleResult([req[r] EXCEPT !.failed = "extend"], "err")]
    /\ UNCHANGED <<clock, sessions, issued, signedOut, jar, issuedTo, page>>

\* ------------------------------------------------------------------ client
\* What a user agent keeps of a Set-Cookie for 'session': nothing when the
\* cookie is already expired (Max-Age=0, or an Expires date that has passed),
\* the cookie otherwise.  The value plays no part in the decision.
applySetCookie(c, now) ==
    IF c.maxAge = 0 THEN NoCookie
    ELSE IF c.maxAge = -1 /\ c.expires >= 0 /\ c.expires <= now THEN NoCookie
    ELSE c

\* A response reaches the client that sent the request with `cookie`.
\* cookies.set keeps one entry per cookie name, so the Set-Cookie sent for
\* 'session' is that of the last call.  It replaces the cookie the client sent
\* the request with; a cookie carrying a freshly issued token is held under
\* that token.
deliver(j, cookie, setCookies, now) ==
    IF setCookies = <<>> THEN j
    ELSE LET carried == IF NoSessionToken(cookie) THEN EmptyString ELSE cookie[1]
             kept == applySetCookie(setCookies[Len(setCookies)], now)
         IN  [t \in IssuedTokens |->
                IF kept # NoCookie /\ kept.value = t THEN kept
                ELSE IF t = carried
                     THEN (IF kept # NoCookie /\ kept.value \in IssuedTokens
                           THEN NoCookie ELSE kept)
                     ELSE j[t]]

\* ---------------------------------------------------------- route handlers
\* resolve(event) enters the route handler.  validateSessionToken has returned:
\* its local variables (the row it read, the clock value, the Result) are gone,
\* what the handler sees is event.locals and event.cookies.
route(q, kind) ==
    [q EXCEPT !.kind = kind, !.lookup = "none", !.snap = NullSession, !.user = NullUser,
              !.now = -1, !.renewTo = -1, !.result = "none", !.staleAtLookup = FALSE,
              !.expiredAtLookup = FALSE]

\* The handler returns its Response and the request is over: the event (its
\* cookie header, event.locals) and what the middleware and createSession
\* held go with it, what is left is the
\* response (status, body, the cookies set) and the record of the handler's
\* store calls.
respond(q, status, body) ==
    [q EXCEPT !.status = status, !.body = body, !.pc = "done", !.cookie = NoCookie,
              !.locals = NullLocals, !.mwOps = <<>>, !.failed = "none",
              !.mwClear = FALSE, !.newToken = 0, !.newSession = NullSession]

\* GET /api/user without the test of locals.user.
GetUserUnguarded(r) ==
    /\ req[r].pc = "route"
    /\ req' = [req EXCEPT ![r] = respond(route(req[r], "user"), 200, req[r].locals.user)]
    /\ jar' = deliver(jar, req[r].cookie, req'[r].setCookies, clock)
    /\ UNCHANGED <<clock, sessions, issued, signedOut, issuedTo, page>>

\* GET /api/user
GetUser(r) ==
    /\ req[r].pc = "route"
    /\ req' = [req EXCEPT ![r] =
                 IF req[r].locals.user = NullUser
                 THEN respond(route(req[r], "user"), 401, "null")
                 ELSE respond(route(req[r], "user"), 200, req[r].locals.user)]
    /\ jar' = deliver(jar, req[r].cookie, req'[r].setCookies, clock)
    /\ UNCHANGED <<clock, sessions, issued, signedOut, issuedTo, page>>

\* What a completed sign-out leaves in the history.
recordSignOut(q, clean) ==
    IF NoSessionToken(q.cookie) \/ ~clean \/ q.cookie[1] \notin IssuedTokens
    THEN signedOut
    ELSE signedOut \cup {q.cookie[1]}

\* POST /api/auth/signout with no session attached:
\*   deleteSessionTokenCookie(cookies); return Response.json({ success: true })
SignoutAnonymous(r) ==
    /\ req[r].pc = "route"
    /\ req[r].locals.session = NullSession
    /\ req' = [req EXCEPT ![r] =
                 respond([route(req[r], "signout") EXCEPT
                                        !.setCookies = Append(@, ClearedCookie)],
                         200, "success")]
    /\ signedOut' = recordSignOut(req[r], req[r].failed = "none")
    /\ jar' = deliver(jar, req[r].cookie, req'[r].setCookies, clock)
    /\ UNCHANGED <<clock, sessions, issued, issuedTo, page>>

\* A sign-out that clears the cookie and never calls invalidateSession.
SignoutSkipsInvalidate(r) ==
    /\ req[r].pc = "route"
    /\ req[r].locals.session # NullSession
    /\ req' = [req EXCEPT ![r] =
                 respond([route(req[r], "signout") EXCEPT
                                        !.setCookies = Append(@, ClearedCookie)],
                         200, "success")]
    /\ signedOut' = recordSignOut(req[r], req[r].failed = "none")
    /\ jar' = deliver(jar, req[r].cookie, req'[r].setCookies, clock)
    /\ UNCHANGED <<clock, sessions, issued, issuedTo, page>>

\* POST /api/auth/signout: if (locals.session) { await invalidateSession(locals.session.id) }
SignoutBegin(r) ==
    /\ req[r].pc = "route"
    /\ req[r].locals.session # NullSession
    /\ req' = [req EXCEPT ![r] =
                 [route(req[r], "signout") EXCEPT
                     !.hOps = Append(@, <<"delete", req[r].locals.session.id>>),
                     !.pc = "invalidate"]]
    /\ UNCHANGED <<clock, sessions, issued, signedOut, jar, issuedTo, page>>

\* A sign-out that ends every session of the signed-in user.
InvalidateOkAllOfUser(r) ==
    /\ req[r].pc = "invalidate"
    /\ sessions' = [id \in {i \in DOMAIN sessions :
                                sessions[i].userId # req[r].locals.user} |-> sessions[id]]
    /\ req' = [req EXCEPT ![r] =
                 respond([req[r] EXCEPT !.setCookies = Append(@, ClearedCookie)],
                         200, "success")]
    /\ signedOut' = recordSignOut(req[r], req[r].failed = "none")
    /\ jar' = deliver(jar, req[r].cookie, req'[r].setCookies, clock)
    /\ UNCHANGED <<clock, issued, issuedTo, page>>

\* invalidateSession succeeds; then the cookie is cleared and success returned.
InvalidateOk(r) ==
    /\ req[r].pc = "invalidate"
    /\ sessions' = invalidateSession(sessions, req[r].locals.session.id)
    /\ req' = [req EXCEPT ![r] =
                 respond([req[r] EXCEPT !.setCookies = Append(@, ClearedCookie)],
                         200, "success")]
    /\ signedOut' = recordSignOut(req[r], req[r].failed = "none")
    /\ jar' = deliver(jar, req[r].cookie, req'[r].setCookies, clock)
    /\ UNCHANGED <<clock, issued, issuedTo, page>>

\* A sign-out that inspects the result of invalidateSession and answers 500,
\* leaving the cookie, when it failed.
InvalidateFailSurfaced(r) ==
    /\ req[r].pc = "invalidate"
    /\ req' = [req EXCEPT ![r] =
                 respond([req[r] EXCEPT !.hFailed = TRUE], 500, "Internal server error")]
    /\ signedOut' = recordSignOut(req[r], FALSE)
    /\ jar' = deliver(jar, req[r].cookie, req'[r].setCookies, clock)
    /\ UNCHANGED <<clock, sessions, issued, issuedTo, page>>

\* invalidateSession fails; its result is not inspected.
InvalidateFail(r) ==
    /\ req[r].pc = "invalidate"
    /\ req' = [req EXCEPT ![r] =
                 respond([req[r] EXCEPT !.setCookies = Append(@, ClearedCookie),
                                        !.hFailed = TRUE],
                         200, "success")]
    /\ signedOut' = recordSignOut(req[r], FALSE)
    /\ jar' = deliver(jar, req[r].cookie, req'[r].setCookies, clock)
    /\ UNCHANGED <<clock, sessions, issued, issuedTo, page>>

\* The users a new session can be for.  User ids are interchangeable, so the
\* first session ever created is taken to be u1's.
UsersToSignIn == IF issued = 0 THEN {"u1"} ELSE Users

\* A sign-in that answers wrong credentials with 401 instead of 400.
SigninRefusalsUnauthorized ==
    {<<"Internal server error", 500>>, <<"Invalid input", 400>>, <<"Invalid credentials", 401>>}

\* POST /api/auth/signin, refused: the body does not parse (500 'Internal server
\* error'), fails the schema (400 'Invalid input'), getAuthUser returns an Err or
\* the password differs (400 'Invalid credentials').
SigninRefusals ==
    {<<"Internal server error", 500>>, <<"Invalid input", 400>>, <<"Invalid credentials", 400>>}

SigninRefused(r) ==
    /\ req[r].pc = "route"
    /\ \E why \in SigninRefusals :
          req' = [req EXCEPT ![r] = respond(route(req[r], "signin"), why[2], why[1])]
    /\ jar' = deliver(jar, req[r].cookie, req'[r].setCookies, clock)
    /\ UNCHANGED <<clock, sessions, issued, signedOut, issuedTo, page>>

\* POST /api/auth/signup, refused: the body does not parse (500), fails the
\* schema (400 'Invalid input'), or createAuthUser returns an Err (400).
SignupRefusals ==
    {<<"Internal server error", 500>>, <<"Invalid input", 400>>, <<"Failed to create user", 400>>}

SignupRefused(r) ==
    /\ req[r].pc = "route"
    /\ \E why \in SignupRefusals :
          req' = [req EXCEPT ![r] = respond(route(req[r], "signup"), why[2], why[1])]
    /\ jar' = deliver(jar, req[r].cookie, req'[r].setCookies, clock)
    /\ UNCHANGED <<clock, sessions, issued, signedOut, issuedTo, page>>

\* POST /api/auth/signup, user created:
\*   const token = generateSessionToken(); createSession(token, user.id)
SignupCreatedUpTo(r, budget) ==
    /\ req[r].pc = "route"
    /\ issued < budget
    /\ \E u \in UsersToSignIn :
          req' = [req EXCEPT ![r] =
                    [route(req[r], "signup") EXCEPT
                        !.newToken = issued + 1,
                        !.newSession = [id |-> sha256(issued + 1), userId |-> u,
                                        expiresAt |-> NewExpiry(clock)],
                        !.hOps = Append(@, <<"insert", sha256(issued + 1)>>),
                        !.pc = "create"]]
    /\ issued' = issued + 1
    /\ UNCHANGED <<clock, sessions, signedOut, jar, issuedTo, page>>

\* Sign-up in the runs of Spec.
SignupCreated(r) == SignupCreatedUpTo(r, MaxTokens)

\* A sign-in whose generateSessionToken returns the same string every time.
SigninVerifiedReusesToken(r) ==
    /\ req[r].pc = "route"
    /\ \E u \in Users :
          req' = [req EXCEPT ![r] =
                    [route(req[r], "signin") EXCEPT
                        !.newToken = 1,
                        !.newSession = [id |-> sha256(1), userId |-> u,
                                        expiresAt |-> NewExpiry(clock)],
                        !.hOps = Append(@, <<"insert", sha256(1)>>),
                        !.pc = "create"]]
    /\ issued' = 1
    /\ UNCHANGED <<clock, sessions, signedOut, jar, issuedTo, page>>

\* POST /api/auth/signin, credentials verified:
\*   const token = generateSessionToken(); createSession(token, user.id)
\* createSession builds the session with expiresAt = Date.now() + 30 days and
\* then awaits createSessionDb.
SigninVerifiedUpTo(r, budget) ==
    /\ req[r].pc = "route"
    /\ issued < budget
    /\ \E u \in UsersToSignIn :
          req' = [req EXCEPT ![r] =
                    [route(req[r], "signin") EXCEPT
                        !.newToken = issued + 1,
                        !.newSession = [id |-> sha256(issued + 1), userId |-> u,
                                        expiresAt |-> NewExpiry(clock)],
                        !.hOps = Append(@, <<"insert", sha256(issued + 1)>>),
                        !.pc = "create"]]
    /\ issued' = issued + 1
    /\ UNCHANGED <<clock, sessions, signedOut, jar, issuedTo, page>>

\* Sign-in in the runs of Spec.
SigninVerified(r) == SigninVerifiedUpTo(r, MaxTokens)

\* A middleware that clears the stale cookie after resolve(event) has returned:
\* its cookies.set comes after the handler's.
CreateOkClearedAfterwards(r) ==
    /\ req[r].pc = "create"
    /\ sessions' = createSessionDb(sessions, req[r].newSession)
    /\ req' = [req EXCEPT ![r] =
                 respond([req[r] EXCEPT !.setCookies =
                             IF req[r].mwClear
                             THEN <<SessionCookie(req[r].newToken,
                                                  req[r].newSession.expiresAt),
                                    ClearedCookie>>
                             ELSE Append(@, SessionCookie(req[r].newToken,
                                                          req[r].newSession.expiresAt))],
                         200, "success")]
    /\ jar' = deliver(jar, req[r].cookie, req'[r].setCookies, clock)
    /\ issuedTo' = [issuedTo EXCEPT ![req[r].newToken] = req[r].newSession.userId]
    /\ UNCHANGED <<clock, issued, signedOut, page>>

\* createSessionDb succeeds: setSessionTokenCookie(cookies, token, expiresAt); success.
CreateOk(r) ==
    /\ req[r].pc = "create"
    /\ sessions' = createSessionDb(sessions, req[r].newSession)
    /\ req' = [req EXCEPT ![r] =
                 respond([req[r] EXCEPT !.setCookies =
                             Append(@, SessionCookie(req[r].newToken,
                                                     req[r].newSession.expiresAt))],
                         200, "success")]
    /\ jar' = deliver(jar, req[r].cookie, req'[r].setCookies, clock)
    /\ issuedTo' = [issuedTo EXCEPT ![req[r].newToken] = req[r].newSession.userId]
    /\ UNCHANGED <<clock, issued, signedOut, page>>

\* A handler that sets the cookie without looking at the result of createSession.
CreateFailSetsCookie(r) ==
    /\ req[r].pc = "create"
    /\ req' = [req EXCEPT ![r] =
                 respond([req[r] EXCEPT !.hFailed = TRUE,
                             !.setCookies =
                                Append(@, SessionCookie(req[r].newToken,
                                                        req[r].newSession.expiresAt))],
                         500, "Failed to create session")]
    /\ jar' = deliver(jar, req[r].cookie, req'[r].setCookies, clock)
    /\ UNCHANGED <<clock, sessions, issued, signedOut, issuedTo, page>>

\* createSessionDb fails: 500 'Failed to create session', no cookie.
CreateFail(r) ==
    /\ req[r].pc = "create"
    /\ req' = [req EXCEPT ![r] = respond([req[r] EXCEPT !.hFailed = TRUE],
                                         500, "Failed to create session")]
    /\ jar' = deliver(jar, req[r].cookie, req'[r].setCookies, clock)
    /\ UNCHANGED <<clock, sessions, issued, signedOut, issuedTo, page>>

\* The response has been sent; the task slot is free for the next request.
Finish(r) ==
    /\ req[r].pc = "done"
    /\ req' = [req EXCEPT ![r] = IdleReq]
    /\ UNCHANGED <<clock, sessions, issued, signedOut, jar, issuedTo, page>>

\* ------------------------------------------------------------------- clock
Tick ==
    /\ clock + TickDays <= MaxTime
    /\ clock' = clock + TickDays
    /\ UNCHANGED <<sessions, issued, req, signedOut, jar, issuedTo, page>>

Next ==
    \/ Tick
    \/ \E r \in Reqs : Arrive(r)
    \/ \E r \in Reqs : HandleNoToken(r)
    \/ \E r \in Reqs : LookupFound(r)
    \/ \E r \in Reqs : LookupNotFound(r)
    \/ \E r \in Reqs : LookupUnavailable(r)
    \/ \E r \in Reqs : CheckSession(r)
    \/ \E r \in Reqs : DeleteOk(r)
    \/ \E r \in Reqs : DeleteFail(r)
    \/ \E r \in Reqs : ExtendOk(r)
    \/ \E r \in Reqs : ExtendFail(r)
    \/ \E r \in Reqs : GetUser(r)
    \/ \E r \in Reqs : SignoutAnonymous(r)
    \/ \E r \in Reqs : SignoutBegin(r)
    \/ \E r \in Reqs : InvalidateOk(r)
    \/ \E r \in Reqs : InvalidateFail(r)
    \/ \E r \in Reqs : SigninRefused(r)
    \/ \E r \in Reqs : SigninVerified(r)
    \/ \E r \in Reqs : SignupRefused(r)
    \/ \E r \in Reqs : SignupCreated(r)
    \/ \E r \in Reqs : CreateOk(r)
    \/ \E r \in Reqs : CreateFail(r)
    \/ \E r \in Reqs : Finish(r)

Spec == Init /\ [][Next]_vars

\* The same program with room for MaxTokensMulti sessions, serving its requests
\* one after the other: a request arrives when the one before it has been answered.
NextMulti ==
    \/ Tick
    \/ \E r \in {1} : Arrive(r)
    \/ \E r \in Reqs : HandleNoToken(r)
    \/ \E r \in Reqs : LookupFound(r)
    \/ \E r \in Reqs : LookupNotFound(r)
    \/ \E r \in Reqs : LookupUnavailable(r)
    \/ \E r \in Reqs : CheckSession(r)
    \/ \E r \in Reqs : DeleteOk(r)
    \/ \E r \in Reqs : DeleteFail(r)
    \/ \E r \in Reqs : ExtendOk(r)
    \/ \E r \in Reqs : ExtendFail(r)
    \/ \E r \in Reqs : GetUser(r)
    \/ \E r \in Reqs : SignoutAnonymous(r)
    \/ \E r \in Reqs : SignoutBegin(r)
    \/ \E r \in Reqs : InvalidateOk(r)
    \/ \E r \in Reqs : InvalidateFail(r)
    \/ \E r \in Reqs : SigninRefused(r)
    \/ \E r \in Reqs : SigninVerifiedUpTo(r, MaxTokensMulti)
    \/ \E r \in Reqs : SignupRefused(r)
    \/ \E r \in Reqs : SignupCreatedUpTo(r, MaxTokensMulti)
    \/ \E r \in Reqs : CreateOk(r)
    \/ \E r \in Reqs : CreateFail(r)
    \/ \E r \in Reqs : Finish(r)

SpecMulti == Init /\ [][NextMulti]_vars

\* ---------------------------------------------------------------- chat page
\* The callback of onMount in chat/[chatId]/+page.svelte.  It suspends at its four
\* awaits; each action below is the stretch of code that runs when one of them
\* settles.  What the server answers is an input of the page.

\* catch (err) { error = ... } with nothing after it: loading stays as it is.
catchWithoutFinally(p, message) ==
    [p EXCEPT !.error = message, !.pc = "done"]

\* catch (err) { error = err instanceof Error ? err.message : 'An error occurred' }
\* finally { loading = false }
catchFinally(p, message) ==
    [p EXCEPT !.error = message, !.loading = FALSE, !.pc = "done"]

\* The try block returns or runs to its end: finally { loading = false }.
finallyOnly(p) == [p EXCEPT !.loading = FALSE, !.pc = "done"]

\* The messages of rejected promises: fetch() rejects with a TypeError, json()
\* with a SyntaxError; neither message is empty.
FetchFailures == {"Failed to fetch"}
BodyFailures == {"Unexpected token"}

\* The lists of messages a chat comes with.
MessageLists == {[i \in 1..n |-> "m"] : n \in 0..MaxMessages}

\* const userResponse = await fetch('/api/user')  -- the request is sent.
PageMount ==
    /\ page.pc = "mount"
    /\ page' = [page EXCEPT !.pc = "userFetch"]
    /\ UNCHANGED serverVars

\* fetch('/api/user') rejects: the catch block, then finally.
UserFetchThrows ==
    /\ page.pc = "userFetch"
    /\ \E m \in FetchFailures :
          page' = catchFinally([page EXCEPT !.fetchThrew = TRUE], m)
    /\ UNCHANGED serverVars

\* fetch('/api/user') resolves: if (userResponse.ok) user = await userResponse.json(),
\* otherwise on to fetch(`/api/chat/${page.params.chatId}`).
UserFetchResolves ==
    /\ page.pc = "userFetch"
    /\ \E ok \in BOOLEAN :
          page' = [page EXCEPT !.pc = IF ok THEN "userJson" ELSE "chatFetch"]
    /\ UNCHANGED serverVars

\* userResponse.json() rejects.
UserBodyThrows ==
    /\ page.pc = "userJson"
    /\ \E m \in BodyFailures :
          page' = catchFinally([page EXCEPT !.bodyThrew = TRUE], m)
    /\ UNCHANGED serverVars

\* userResponse.json() resolves: user = ...; then the chat is fetched.
UserBodyResolves ==
    /\ page.pc = "userJson"
    /\ \E u \in Users : page' = [page EXCEPT !.user = u, !.pc = "chatFetch"]
    /\ UNCHANGED serverVars

\* fetch(`/api/chat/...`) rejects.
ChatFetchThrows ==
    /\ page.pc = "chatFetch"
    /\ \E m \in FetchFailures :
          page' = catchFinally([page EXCEPT !.fetchThrew = TRUE], m)
    /\ UNCHANGED serverVars

\* The chat response is 404: goto('/'); return.
ChatNotFound ==
    /\ page.pc = "chatFetch"
    /\ page' = finallyOnly([page EXCEPT !.chatStatus = 404, !.goneTo = "/"])
    /\ UNCHANGED serverVars

\* The chat response is not ok and not 404: throw new Error('Failed to load chat').
ChatFailed ==
    /\ page.pc = "chatFetch"
    /\ \E status \in {403, 500} :
          page' = catchFinally([page EXCEPT !.chatStatus = status], "Failed to load chat")
    /\ UNCHANGED serverVars

\* The chat response is ok: const chatData = await chatResponse.json().
ChatOk ==
    /\ page.pc = "chatFetch"
    /\ page' = [page EXCEPT !.chatStatus = 200, !.pc = "chatJson"]
    /\ UNCHANGED serverVars

\* chatResponse.json() rejects.
ChatBodyThrows ==
    /\ page.pc = "chatJson"
    /\ \E m \in BodyFailures :
          page' = catchFinally([page EXCEPT !.bodyThrew = TRUE], m)
    /\ UNCHANGED serverVars

\* chatResponse.json() resolves: chat = chatData.chat; messages = chatData.messages.
ChatLoaded ==
    /\ page.pc = "chatJson"
    /\ \E owner \in Users : \E ms \in MessageLists :
          page' = finallyOnly([page EXCEPT !.chat = [id |-> page.chatId, userId |-> owner],
                                          !.messages = ms])
    /\ UNCHANGED serverVars

\* A browser opens the page of one chat; the server is as Init leaves it.
InitPage ==
    /\ clock = 0
    /\ sessions = << >>
    /\ issued = 0
    /\ req = [r \in Reqs |-> IdleReq]
    /\ signedOut = {}
    /\ jar = [t \in IssuedTokens |-> NoCookie]
    /\ issuedTo = [t \in IssuedTokens |-> NullUser]
    /\ page \in {MountedPage(c) : c \in ChatIds}

NextPage ==
    \/ PageMount
    \/ UserFetchThrows
    \/ UserFetchResolves
    \/ UserBodyThrows
    \/ UserBodyResolves
    \/ ChatFetchThrows
    \/ ChatNotFound
    \/ ChatFailed
    \/ ChatOk
    \/ ChatBodyThrows
    \/ ChatLoaded

\* Every fetch and every body read settles: a promise that is pending is
\* eventually resolved or rejected.
SpecPage == InitPage /\ [][NextPage]_vars /\ WF_vars(NextPage)

\* ================================================================== claims
\* The identity validateSessionToken returns for the row request q read.
IdentityOf(q) == [user |-> q.user, session |-> q.snap]

\* Request q has left the middleware and resolve(event) has not run yet: the
\* outcome of its validation is in event.locals and event.cookies.
Validated(q) == q.pc = "route" /\ q.lookup = "found"

\* What a validation outside the renewal window returns and has issued.
C1_ValidNoWrites ==
    \A r \in Reqs :
        (Validated(req[r]) /\ req[r].now < req[r].snap.expiresAt - RENEWAL_WINDOW)
        => /\ req[r].result = "valid"
           /\ req[r].locals = IdentityOf(req[r])
           /\ req[r].locals.user \in Users
           /\ req[r].mwOps = <<>>
           /\ req[r].setCookies = <<>>

\* The step in which validateSessionToken returns straight after its two tests.
C1_StoreUntouched ==
    \A r \in Reqs :
        (req[r].pc = "check" /\ req'[r].pc = "route") => sessions' = sessions

\* C1: a validation that reads a session at a time now < expiresAt - RENEWAL_WINDOW
\* returns that session and its user and leaves the store unchanged: it issues no
\* extendSession and no deleteSession (and writes no cookie).
C1_ValidOutsideWindowNoMutation == [](C1_ValidNoWrites) /\ [][C1_StoreUntouched]_vars

C1_Witness ==
    \E r \in Reqs :
        /\ Validated(req[r])
        /\ req[r].now < req[r].snap.expiresAt - RENEWAL_WINDOW
        /\ req[r].snap.id \in DOMAIN sessions

\* Request q read a session at a time now inside its renewal window.
InWindow(q) ==
    /\ q.lookup = "found"
    /\ q.now >= q.snap.expiresAt - RENEWAL_WINDOW
    /\ q.now < q.snap.expiresAt

\* What a validation inside the window has issued, and what it returns.
C2_RenewalIssued ==
    \A r \in Reqs :
        (req[r].pc \in {"extend", "route"} /\ InWindow(req[r]))
        => /\ req[r].mwOps = << <<"extend", req[r].snap.id>> >>
           /\ req[r].renewTo = req[r].now + SESSION_LIFETIME
           /\ (req[r].pc = "route" /\ req[r].failed = "none")
                 => (req[r].result = "valid" /\ req[r].locals = IdentityOf(req[r]))

\* The step in which the store applies that renewal to the row as it was read.
C2_RenewalWritten ==
    \A r \in Reqs :
        ( /\ req[r].pc = "extend" /\ InWindow(req[r])
          /\ req'[r].pc = "route" /\ req'[r].failed = "none"
          /\ req[r].snap.id \in DOMAIN sessions
          /\ sessions[req[r].snap.id].expiresAt = req[r].snap.expiresAt )
        => /\ req[r].snap.id \in DOMAIN sessions'
           /\ sessions'[req[r].snap.id].expiresAt = req[r].now + SESSION_LIFETIME

\* C2: a validation that reads a session at a time now with
\* expiresAt - RENEWAL_WINDOW <= now < expiresAt (lower bound included) issues
\* exactly one store write, extendSession of that session to now + SESSION_LIFETIME,
\* and no delete; when that write succeeds the validation returns the session and
\* its user, and the write leaves the stored expiresAt of the row it read equal to
\* now + SESSION_LIFETIME.
C2_RenewalInsideWindow == [](C2_RenewalIssued) /\ [][C2_RenewalWritten]_vars

C2_Witness ==
    \E r \in Reqs :
        /\ Validated(req[r]) /\ InWindow(req[r])
        /\ req[r].now = req[r].snap.expiresAt - RENEWAL_WINDOW
        /\ req[r].result = "valid"
        /\ req[r].snap.id \in DOMAIN sessions
        /\ sessions[req[r].snap.id].expiresAt = req[r].now + SESSION_LIFETIME

\* Request q read a session at a time now at or after its expiry.
AtOrPastExpiry(q) == q.lookup = "found" /\ q.now >= q.snap.expiresAt

\* C3: a validation that reads a session at a time now >= expiresAt (the instant
\* expiresAt included) attaches no identity and issues exactly one store write, the
\* delete of that session; when the delete succeeds validateSessionToken returns
\* { session: null, user: null } and the record is absent from the store from then on.
C3_ExpiredDeleted ==
    \A r \in Reqs :
        (req[r].pc \in {"delete", "route"} /\ AtOrPastExpiry(req[r]))
        => /\ req[r].mwOps = << <<"delete", req[r].snap.id>> >>
           /\ req[r].pc = "route"
                => /\ req[r].locals = NullLocals
                   /\ req[r].failed = "none"
                        => /\ req[r].result = "anonymous"
                           /\ req[r].snap.id \notin DOMAIN sessions

C3_Witness ==
    \E r \in Reqs :
        /\ Validated(req[r]) /\ req[r].now = req[r].snap.expiresAt
        /\ req[r].result = "anonymous"

\* Request q carries no token, or a token that has no record.
NoMatchingRecord(q) ==
    \/ NoSessionToken(q.cookie)
    \/ q.lookup = "notfound"
    \/ (q.lookup # "none" /\ q.cookie[1] = JunkToken)

\* What such a request gets from the middleware.
C4_AnonymousNoWrites ==
    \A r \in Reqs :
        (req[r].pc = "route" /\ NoMatchingRecord(req[r]))
        => /\ req[r].locals = NullLocals
           /\ req[r].mwOps = <<>>
           /\ req[r].lookup \in {"none", "notfound", "unavailable"}

\* The step in which handle goes from reading the cookie to resolve(event)
\* without a session row: no token, or an Err of getFullSession.
C4_StoreUntouched ==
    \A r \in Reqs :
        (req[r].pc = "handle" /\ req'[r].pc = "route") => sessions' = sessions

\* C4: a request without a session cookie (or with an empty one), and a request
\* whose token was never issued or has no record in the store, gets no identity,
\* and its middleware issues no store write: the session table is left unchanged.
C4_AnonymousNoStoreMutation == [](C4_AnonymousNoWrites) /\ [][C4_StoreUntouched]_vars

C4_Witness ==
    /\ \E r \in Reqs : req[r].pc = "route" /\ req[r].cookie = NoCookie
    /\ \E r \in Reqs :
          /\ req[r].pc = "route" /\ req[r].lookup = "notfound"
          /\ req[r].cookie = <<JunkToken>>
    /\ DOMAIN sessions # {}

\* C5: when the request carries a token for which getFullSession finds no record
\* (a well-formed token whose session is gone, or a string that never was a token),
\* handle attaches no identity and has written the clearing cookie before
\* resolve(event) runs.
C5_UnknownTokenClearsCookie ==
    \A r \in Reqs :
        (req[r].pc = "route" /\ req[r].lookup = "notfound")
        => /\ req[r].locals = NullLocals
           /\ req[r].mwClear
           /\ req[r].setCookies = <<ClearedCookie>>

C5_Witness ==
    \E r1, r2 \in Reqs :
        /\ req[r1].pc = "route" /\ req[r1].lookup = "notfound"
        /\ req[r1].cookie = <<JunkToken>>
        /\ req[r2].pc = "route" /\ req[r2].lookup = "notfound"
        /\ req[r2].cookie[1] \in IssuedTokens

\* No session that survives a step has its expiresAt lowered by it.
C6_ExpiryStep ==
    \A id \in DOMAIN sessions \cap DOMAIN sessions' :
        sessions'[id].expiresAt >= sessions[id].expiresAt

\* C6: the stored expiresAt of a session never decreases, whatever the order in
\* which the store applies the writes of concurrent validations (each renewal asks
\* for its own now + SESSION_LIFETIME).
C6_ExpiryNeverDecreases == [][C6_ExpiryStep]_vars

\* A renewal has been applied whose target is older than the expiry the store
\* holds: the write of a later validation landed before it.
C6_Witness ==
    \E r \in Reqs :
        /\ req[r].pc = "route" /\ req[r].mwOps = << <<"extend", req[r].snap.id>> >>
        /\ req[r].failed = "none"
        /\ req[r].snap.id \in DOMAIN sessions
        /\ req[r].renewTo < sessions[req[r].snap.id].expiresAt

\* C7: when extendSession fails during the validation of a session that was found
\* and is not expired, handle still attaches the session's identity and does not
\* clear the cookie.
C7_RenewalFailureKeepsIdentity ==
    \A r \in Reqs :
        (req[r].pc = "route" /\ req[r].lookup = "found" /\ req[r].failed = "extend")
        => /\ req[r].locals = IdentityOf(req[r])
           /\ ~req[r].mwClear

\* The step in which deleteSession fails.
C8_FailureNotSurfaced ==
    \A r \in Reqs :
        (req[r].pc = "delete" /\ req'[r].failed = "delete")
        => /\ sessions' = sessions
           /\ req'[r].pc = "route"
           /\ req'[r].status = 0
           /\ req'[r].locals = NullLocals
           /\ req'[r].mwClear
           /\ req'[r].setCookies = <<ClearedCookie>>

\* A validation that tests the same record after the failure.
C8_DeleteRetried ==
    \A r, r2 \in Reqs :
        ( /\ req[r].pc = "route" /\ req[r].failed = "delete"
          /\ req[r2].pc = "check" /\ req'[r2].pc # "check"
          /\ req[r2].snap = req[r].snap )
        => /\ req'[r2].pc = "delete"
           /\ req'[r2].mwOps = << <<"delete", req[r2].snap.id>> >>

C9_StoreUnavailableIsFatal ==
    \A r \in Reqs :
        req[r].lookup = "unavailable"
        => ~(req[r].pc = "route" /\ req[r].locals = NullLocals /\ req[r].mwClear)

\* C9: a StoreUnavailable failure of the session lookup is not fatal: handle treats
\* it as it treats a missing record, so the request goes to its route handler with
\* no identity and the clearing cookie, and no store write is issued.
C9_StoreUnavailableHandledAsNotFound ==
    \A r \in Reqs :
        req[r].lookup = "unavailable"
        => /\ req[r].pc = "route"
           /\ req[r].status = 0
           /\ req[r].locals = NullLocals
           /\ req[r].mwClear
           /\ req[r].setCookies = <<ClearedCookie>>
           /\ req[r].mwOps = <<>>

\* The owner of a live session is handed on as anonymous.
C9_Witness ==
    \E r \in Reqs :
        /\ req[r].lookup = "unavailable" /\ req[r].pc = "route"
        /\ sha256(req[r].cookie[1]) \in DOMAIN sessions
        /\ clock < sessions[sha256(req[r].cookie[1])].expiresAt

\* C10: once a sign-out request that carried a session token has completed (none
\* of its store calls having failed), the store holds no record for that token's
\* lookup id, and every validation of the token that starts afterwards attaches no
\* identity and clears the cookie.
C10_SignedOutTokenIsDead ==
    /\ \A t \in signedOut : sha256(t) \notin DOMAIN sessions
    /\ \A r \in Reqs :
          req[r].staleAtLookup
          => /\ req[r].pc = "route"
             /\ req[r].locals = NullLocals
             /\ req[r].mwClear
             /\ req[r].setCookies = <<ClearedCookie>>

\* The sign-out that deleted the session is done and a later request with the old
\* token has been through the middleware.
C10_Witness ==
    \E r, r2 \in Reqs :
        /\ req[r2].pc = "route" /\ req[r2].staleAtLookup
        /\ ~NoSessionToken(req[r2].cookie)
        /\ req[r2].cookie[1] \in signedOut
        /\ req[r].pc = "done" /\ req[r].kind = "signout"
        /\ req[r].hOps = << <<"delete", sha256(req[r2].cookie[1])>> >>

\* The token a request was sent with, EmptyString when it was sent with none.
TokenOf(q) == IF NoSessionToken(q.cookie) THEN EmptyString ELSE q.cookie[1]

\* The step of sign-in in which createSession builds the session.
C11_SessionBuilt ==
    \A r \in Reqs :
        (req[r].pc = "route" /\ req'[r].pc = "create" /\ req'[r].kind = "signin")
        => /\ req'[r].newToken \in IssuedTokens
           /\ req'[r].newSession.id = sha256(req'[r].newToken)
           /\ req'[r].newSession.userId \in Users
           /\ req'[r].newSession.expiresAt = clock + SESSION_LIFETIME

\* The step of sign-in in which createSessionDb succeeds and the cookie is set.
C11_SessionStored ==
    \A r \in Reqs :
        (req[r].pc = "create" /\ req[r].kind = "signin" /\ req'[r].status = 200)
        => LET s == req[r].newSession IN
           /\ s.id \in DOMAIN sessions'
           /\ sessions'[s.id] = [userId |-> s.userId, expiresAt |-> s.expiresAt]
           /\ req'[r].setCookies # <<>>
           /\ LET c == req'[r].setCookies[Len(req'[r].setCookies)] IN
                 c.value = req[r].newToken /\ c.expires = s.expiresAt
           /\ issuedTo'[req[r].newToken] = s.userId

\* A validation of an issued token that found its session more than
\* RENEWAL_WINDOW before the expiry.
C11_ValidatedAfterwards ==
    \A r \in Reqs :
        (Validated(req[r]) /\ TokenOf(req[r]) \in IssuedTokens
            /\ req[r].now < req[r].snap.expiresAt - RENEWAL_WINDOW)
        => /\ req[r].snap.id = sha256(TokenOf(req[r]))
           /\ req[r].snap.userId = issuedTo[TokenOf(req[r])]
           /\ req[r].result = "valid"
           /\ req[r].locals.user = issuedTo[TokenOf(req[r])]
           /\ req[r].locals.user \in Users
           /\ req[r].locals.session = req[r].snap
           /\ \A i \in 1..Len(req[r].mwOps) : req[r].mwOps[i][1] # "extend"

\* C11: a sign-in with valid credentials at time t0 stores a session for that
\* user with expiresAt = t0 + SESSION_LIFETIME and sets the cookie to the fresh
\* token; validating that token before the renewal window opens locates that
\* same session, returns the same user and issues no renewal.
C11_SigninThenValidate ==
    [](C11_ValidatedAfterwards) /\ [][C11_SessionBuilt /\ C11_SessionStored]_vars

C11_Witness ==
    \E r \in Reqs :
        /\ Validated(req[r])
        /\ TokenOf(req[r]) \in IssuedTokens
        /\ req[r].result = "valid"
        /\ req[r].mwOps = <<>>
        /\ req[r].now < req[r].snap.expiresAt - RENEWAL_WINDOW
        /\ req[r].snap.expiresAt = req[r].now + SESSION_LIFETIME
        /\ req[r].locals.user = issuedTo[TokenOf(req[r])]
        /\ jar[TokenOf(req[r])] # NoCookie

\* C12: no persisted session record holds a raw token: each record is keyed by
\* the derived lookup id (the hex digest) of a token generateSessionToken has
\* returned, never by the token string, its columns are userId and expiresAt
\* only, and the token itself is what the client's cookie carries.
C12_NoRawTokenPersisted ==
    /\ \A id \in DOMAIN sessions :
          /\ \E t \in 1..issued : id = sha256(t)
          /\ Len(id) = 2 /\ id[1] = "sha256"
          /\ DOMAIN sessions[id] = {"userId", "expiresAt"}
          /\ sessions[id].userId \in Users
    /\ \A t \in IssuedTokens :
          jar[t] # NoCookie => jar[t].value \in {t, LiteralToken}

C12_Witness ==
    \E t \in IssuedTokens :
        /\ sha256(t) \in DOMAIN sessions
        /\ jar[t] # NoCookie
        /\ jar[t].value = t

\* C13: the expiry of a session cookie held by a client is synchronized with
\* the expiresAt of the stored session it is bound to, also after that
\* expiresAt has been extended by a renewal during validation.
C13_CookieExpirySynchronized ==
    \A t \in IssuedTokens :
        (jar[t] # NoCookie /\ jar[t].value = t /\ sha256(t) \in DOMAIN sessions)
        => jar[t].expires = sessions[sha256(t)].expiresAt

\* C14: for a request whose session is Valid-and-renewing, the middleware
\* releases the request to the route handler without waiting for the renewal
\* write to complete: the step of validateSessionToken that issues the renewal
\* hands the request on with the identity it has read, whatever the renewal's
\* outcome will be.
C14_RenewalNotAwaited ==
    [][\A r \in Reqs :
          (/\ req[r].pc = "check"
           /\ Len(req'[r].mwOps) = Len(req[r].mwOps) + 1
           /\ req'[r].mwOps[Len(req'[r].mwOps)][1] = "extend")
          => /\ req'[r].pc = "route"
             /\ req'[r].locals = IdentityOf(req[r])]_vars

\* A validation that found the session ends authenticated as the session's
\* owner or Anonymous, and a signed-out session has no record.
C15_OwnerOrAnonymous ==
    /\ \A r \in Reqs :
          (Validated(req[r]) /\ TokenOf(req[r]) \in IssuedTokens)
          => \/ /\ req[r].result = "valid"
                /\ req[r].locals = IdentityOf(req[r])
                /\ req[r].locals.user = issuedTo[TokenOf(req[r])]
             \/ /\ req[r].result \in {"anonymous", "err"}
                /\ req[r].locals = NullLocals
    /\ \A t \in signedOut : sha256(t) \notin DOMAIN sessions

\* A renewal write that arrives after the record was deleted changes nothing,
\* and the only step that adds a record is the insert of a session being created.
C15_NoResurrection ==
    /\ \A r \in Reqs :
          (req[r].pc = "extend" /\ req'[r].pc # "extend"
              /\ req[r].snap.id \notin DOMAIN sessions)
          => sessions' = sessions
    /\ \A id \in DOMAIN sessions' \ DOMAIN sessions :
          \E r \in Reqs : req[r].pc = "create" /\ req[r].newSession.id = id

\* C15: in every interleaving of a sign-out and a concurrent validation
\* (including its renewal write) of the same session, the validating request
\* ends authenticated as the session's owner or Anonymous, and once sign-out's
\* delete has been applied no record for that lookup id exists again: a renewal
\* arriving after the delete is a no-op and does not re-create the session.
C15_SignoutRacesValidation == [](C15_OwnerOrAnonymous) /\ [][C15_NoResurrection]_vars

\* The renewal of a validation has landed after the sign-out's delete.
C15_Witness ==
    \E r \in Reqs :
        /\ Validated(req[r])
        /\ req[r].result = "valid"
        /\ req[r].mwOps = <<<<"extend", req[r].snap.id>>>>
        /\ TokenOf(req[r]) \in signedOut
        /\ req[r].snap.id \notin DOMAIN sessions

\* Every stored session belongs to the user its token was issued to.
C16_OwnerAsIssued ==
    \A t \in IssuedTokens :
        sha256(t) \in DOMAIN sessions => sessions[sha256(t)].userId = issuedTo[t]

\* What one step may change in a record that exists before and after it.
C16_OnlyRenewalWrites ==
    \A id \in DOMAIN sessions \cap DOMAIN sessions' :
        /\ sessions'[id].userId = sessions[id].userId
        /\ DOMAIN sessions'[id] = DOMAIN sessions[id]
        /\ sessions'[id].expiresAt # sessions[id].expiresAt
              => \E r \in Reqs :
                    /\ req[r].pc = "extend"
                    /\ req[r].snap.id = id
                    /\ req'[r].pc = "route"
                    /\ sessions'[id].expiresAt = req[r].renewTo

\* C16: over any sequence of sign-in, sign-up, validation, renewal and sign-out
\* operations the userId of a stored session never changes after creation; the
\* only field of an existing record that any operation mutates is expiresAt,
\* and only the renewal step mutates it.
C16_SubjectImmutable == [](C16_OwnerAsIssued) /\ [][C16_OnlyRenewalWrites]_vars

\* A session that has been renewed and still belongs to the user it was issued to.
C16_Witness ==
    \E t \in IssuedTokens :
        /\ sha256(t) \in DOMAIN sessions
        /\ sessions[sha256(t)].userId = issuedTo[t]
        /\ \E r \in Reqs :
              /\ Validated(req[r]) /\ req[r].result = "valid"
              /\ req[r].snap.id = sha256(t)
              /\ req[r].mwOps = <<<<"extend", sha256(t)>>>>
              /\ sessions[sha256(t)].expiresAt = req[r].renewTo
              /\ sessions[sha256(t)].expiresAt > req[r].snap.expiresAt

\* No stored expiry lies further than SESSION_LIFETIME ahead of the clock, and a
\* renewal that is waiting for the store asks for its own now + SESSION_LIFETIME.
C17_ExpiryBounded ==
    /\ \A id \in DOMAIN sessions : sessions[id].expiresAt <= clock + SESSION_LIFETIME
    /\ \A r \in Reqs :
          req[r].pc = "extend"
          => req[r].now <= clock /\ req[r].renewTo = req[r].now + SESSION_LIFETIME

\* The expiry a step puts into the store is the lifetime added to the time t at
\* which the creation or the renewal read the clock.
C17_RelativeToNow ==
    /\ \A r \in Reqs :
          (req[r].pc = "route" /\ req'[r].pc = "create")
          => req'[r].newSession.expiresAt = clock + SESSION_LIFETIME
    /\ \A r \in Reqs :
          (req[r].pc = "check" /\ req'[r].pc = "extend")
          => req'[r].now = clock /\ req'[r].renewTo = clock + SESSION_LIFETIME
    /\ \A id \in DOMAIN sessions' :
          \/ id \in DOMAIN sessions /\ sessions'[id].expiresAt = sessions[id].expiresAt
          \/ \E r \in Reqs :
                /\ req[r].pc = "extend" /\ req[r].snap.id = id
                /\ sessions'[id].expiresAt = req[r].now + SESSION_LIFETIME
          \/ \E r \in Reqs :
                /\ req[r].pc = "create" /\ req[r].newSession.id = id
                /\ sessions'[id].expiresAt = req[r].newSession.expiresAt

\* C17: each stored session satisfies expiresAt <= t + SESSION_LIFETIME where t
\* is the time of its creation or of its most recent renewal: a renewal sets the
\* expiry relative to now and never adds to the old expiresAt, so repeated
\* renewals cannot push the expiry further than SESSION_LIFETIME beyond the
\* last use.
C17_NoLifetimeDrift == [](C17_ExpiryBounded) /\ [][C17_RelativeToNow]_vars

\* A session renewed twice: its expiry is SESSION_LIFETIME after the second
\* renewal's clock and a full lifetime beyond the expiry it was created with.
C17_Witness ==
    \E t \in IssuedTokens :
        /\ sha256(t) \in DOMAIN sessions
        /\ jar[t] # NoCookie /\ jar[t].value = t
        /\ sessions[sha256(t)].expiresAt = jar[t].expires + SESSION_LIFETIME
        /\ sessions[sha256(t)].expiresAt = clock + SESSION_LIFETIME

\* The cookie of request q, as the middleware found it: absent (or empty),
\* unknown to the store, or the token of a session that had expired.
C18_AbsentUnknownOrExpired(q) ==
    \/ NoSessionToken(q.cookie)
    \/ q.lookup = "notfound"
    \/ q.lookup = "found" /\ q.now >= q.snap.expiresAt

\* The step in which GET /api/user answers.
C18_Answer ==
    \A r \in Reqs :
        (req[r].pc = "route" /\ req'[r].kind = "user")
        => /\ req'[r].pc = "done"
           /\ (req'[r].status = 401 /\ req'[r].body = "null") <=> req[r].locals.user = NullUser
           /\ req[r].locals.user # NullUser
                 => /\ req'[r].status = 200
                    /\ req'[r].body = req[r].locals.user
                    /\ TokenOf(req[r]) \in IssuedTokens
                    /\ req'[r].body = issuedTo[TokenOf(req[r])]
           /\ C18_AbsentUnknownOrExpired(req[r])
                 => req'[r].status = 401 /\ req'[r].body = "null"

\* The two answers of GET /api/user.
C18_AnsweredUser ==
    \A r \in Reqs :
        (req[r].pc = "done" /\ req[r].kind = "user")
        => \/ req[r].status = 401 /\ req[r].body = "null"
           \/ req[r].status = 200 /\ req[r].body \in Users

\* C18: GET /api/user responds 401 with a null body exactly when the middleware
\* attached no identity to the request, and otherwise responds with the
\* attached user; it never returns a user for a request whose cookie is
\* absent, unknown or expired.
C18_UserEndpoint == [](C18_AnsweredUser) /\ [][C18_Answer]_vars

\* One request answered with its user, another, sent with a cookie that the
\* middleware did not accept, answered 401.
C18_Witness ==
    \E r, q \in Reqs :
        /\ req[r].pc = "done" /\ req[r].kind = "user"
        /\ req[r].status = 200 /\ req[r].body \in Users
        /\ req[q].pc = "done" /\ req[q].kind = "user"
        /\ req[q].status = 401 /\ req[q].body = "null"
        /\ req[q].setCookies = <<ClearedCookie>>

\* The cookies request q has written with setSessionTokenCookie: those whose
\* value is a generated token.
C19_SessionCookiesOf(q) ==
    {q.setCookies[i] : i \in {j \in 1..Len(q.setCookies) : q.setCookies[j].value \in IssuedTokens}}

\* The attributes setSessionTokenCookie passes in its options object.
C19_DeclaredAttributes ==
    \A r \in Reqs : \A c \in C19_SessionCookiesOf(req[r]) :
        /\ c.name = "session"
        /\ c.httpOnly
        /\ c.sameSite = "lax"
        /\ c.path = "/"
        /\ c.maxAge = -1

\* The step of sign-in or sign-up that sets the cookie gives it the token and
\* the expiry of the session it has stored.
C19_ExpiryOfSession ==
    \A r \in Reqs :
        (req[r].pc = "create" /\ req'[r].status = 200)
        => /\ C19_SessionCookiesOf(req'[r]) =
                 {SessionCookie(req[r].newToken, req[r].newSession.expiresAt)}
           /\ sessions'[req[r].newSession.id].expiresAt = req[r].newSession.expiresAt

\* The Secure attribute is among the options of cookie c.
C19_Secure(c) == IF "secure" \in DOMAIN c THEN c.secure ELSE FALSE

C19_AttributesPassed == [](C19_DeclaredAttributes) /\ [][C19_ExpiryOfSession]_vars

\* The cookies request q has written with deleteSessionTokenCookie: those that
\* do not carry a generated token.
C20_ClearCookiesOf(q) ==
    {q.setCookies[i] : i \in {j \in 1..Len(q.setCookies) : q.setCookies[j].value \notin IssuedTokens}}

\* The flags cookie c shares with the cookie written by setSessionTokenCookie.
C20_SameFlags(c) ==
    LET s == SessionCookie(EmptyString, 0) IN
    /\ c.name = s.name
    /\ c.httpOnly = s.httpOnly
    /\ c.sameSite = s.sameSite
    /\ c.path = s.path

\* C20 as stated: deleteSessionTokenCookie writes a cookie named 'session' with
\* an empty value and Max-Age=0, with the same HttpOnly, SameSite and Path flags
\* as the cookie written by setSessionTokenCookie.
C20_ClearCookieEmptyValue ==
    \A r \in Reqs : \A c \in C20_ClearCookiesOf(req[r]) :
        /\ c.value = EmptyString
        /\ c.maxAge = 0
        /\ C20_SameFlags(c)

\* What deleteSessionTokenCookie writes: the value is the string 'token'.
C20_ClearCookieWritten ==
    \A r \in Reqs : \A c \in C20_ClearCookiesOf(req[r]) :
        /\ c.value = LiteralToken
        /\ c.value # EmptyString
        /\ c.maxAge = 0
        /\ C20_SameFlags(c)
        /\ applySetCookie(c, clock) = NoCookie

\* The step in which a response whose Set-Cookie comes from
\* deleteSessionTokenCookie reaches the client that sent the token.
C20_ClientDropsCookie ==
    \A r \in Reqs :
        (/\ req[r].pc # "done" /\ req'[r].pc = "done"
         /\ TokenOf(req[r]) \in IssuedTokens
         /\ req'[r].setCookies # <<>>
         /\ req'[r].setCookies[Len(req'[r].setCookies)].value \notin IssuedTokens)
        => jar'[TokenOf(req[r])] = NoCookie

\* C20 (amended): deleteSessionTokenCookie writes a cookie named 'session' with
\* the value 'token' and Max-Age=0, with the same HttpOnly, SameSite and Path
\* flags as the cookie written by setSessionTokenCookie, so that a client which
\* held a session cookie holds none afterwards.
C20_ClearCookieDropsSession == [](C20_ClearCookieWritten) /\ [][C20_ClientDropsCookie]_vars

\* A sign-out of a client that had been sent a session cookie has answered, and
\* the client holds no cookie.
C20_Witness ==
    \E r \in Reqs : \E t \in IssuedTokens :
        /\ req[r].pc = "done" /\ req[r].kind = "signout"
        /\ issuedTo[t] \in Users
        /\ req[r].hOps = <<<<"delete", sha256(t)>>>>
        /\ req[r].setCookies = <<ClearedCookie>>
        /\ jar[t] = NoCookie

\* The bodies with which sign-in refuses a request whose JSON body fails the
\* schema, whose email getAuthUser does not know, or whose password differs.
C21_RefusedBodies == {"Invalid input", "Invalid credentials"}

\* The step in which the sign-in handler refuses such a request.
C21_Refusal ==
    \A r \in Reqs :
        (/\ req[r].pc = "route" /\ req'[r].pc = "done" /\ req'[r].kind = "signin"
         /\ req'[r].body \in C21_RefusedBodies)
        => /\ req'[r].status = 400
           /\ sessions' = sessions
           /\ issued' = issued
           /\ req'[r].hOps = <<>>
           /\ req'[r].setCookies = req[r].setCookies
           /\ C19_SessionCookiesOf(req'[r]) = {}
           /\ req[r].setCookies = <<>> => jar' = jar

\* A refused sign-in that has answered.
C21_Refused ==
    \A r \in Reqs :
        (req[r].pc = "done" /\ req[r].kind = "signin" /\ req[r].body \in C21_RefusedBodies)
        => /\ req[r].status = 400
           /\ req[r].hOps = <<>>
           /\ C19_SessionCookiesOf(req[r]) = {}

\* C21: a sign-in request whose email is unknown or whose password does not
\* match (or whose body fails schema validation) responds with status 400,
\* creates no session record and sets no session cookie: the handler leaves the
\* session store as it was and adds nothing to the cookies of the response, so
\* the cookie the client holds is the one the middleware left it.
C21_SigninRefusedNoSession == [](C21_Refused) /\ [][C21_Refusal]_vars

\* A sign-in has been refused for wrong credentials while another client's
\* session is stored and its cookie held.
C21_Witness ==
    \E r \in Reqs : \E t \in IssuedTokens :
        /\ req[r].pc = "done" /\ req[r].kind = "signin"
        /\ req[r].status = 400 /\ req[r].body = "Invalid credentials"
        /\ req[r].setCookies = <<>>
        /\ sha256(t) \in DOMAIN sessions
        /\ jar[t] # NoCookie /\ jar[t].value = t

\* The step in which createSession returns to the sign-in or sign-up handler.
C22_CookieAfterCreate ==
    \A r \in Reqs :
        (req[r].pc = "create" /\ req'[r].pc # "create")
        => /\ req[r].kind \in {"signin", "signup"}
           /\ C19_SessionCookiesOf(req[r]) = {}
           /\ IF req'[r].hFailed
              THEN /\ req'[r].status = 500
                   /\ req'[r].body = "Failed to create session"
                   /\ req'[r].setCookies = req[r].setCookies
                   /\ sessions' = sessions
                   /\ jar'[req[r].newToken] = NoCookie
              ELSE /\ req'[r].status = 200
                   /\ req[r].newSession.id \in DOMAIN sessions'
                   /\ C19_SessionCookiesOf(req'[r]) =
                         {SessionCookie(req[r].newToken, req[r].newSession.expiresAt)}

\* The step in which a client comes to hold a token: its record is stored.
C22_ReceivedTokenIsStored ==
    \A t \in IssuedTokens :
        (jar'[t] # jar[t] /\ jar'[t] # NoCookie /\ jar'[t].value = t)
        => sha256(t) \in DOMAIN sessions'

\* A token some response carries, or some client holds, had its record stored;
\* a handler still waiting for createSession has set no session cookie.
C22_NoTokenWithoutRecord ==
    /\ \A t \in IssuedTokens :
          (jar[t] # NoCookie /\ jar[t].value = t) => issuedTo[t] \in Users
    /\ \A r \in Reqs : \A c \in C19_SessionCookiesOf(req[r]) :
          /\ req[r].pc = "done" /\ req[r].status = 200 /\ ~req[r].hFailed
          /\ issuedTo[c.value] \in Users

\* C22: in sign-in and sign-up the session cookie is set only after createSession
\* has succeeded in persisting the record: if createSession fails the handler
\* responds 500 and sets no cookie, so no client ever receives a token for which
\* no session record was stored.
C22_CookieOnlyAfterPersist ==
    [](C22_NoTokenWithoutRecord) /\ [][C22_CookieAfterCreate /\ C22_ReceivedTokenIsStored]_vars

\* createSession has failed: the handler answered 500, the token it generated
\* has no record and no client holds it.
C22_Witness ==
    \E r \in Reqs : \E t \in IssuedTokens :
        /\ req[r].pc = "done" /\ req[r].kind \in {"signin", "signup"}
        /\ req[r].status = 500 /\ req[r].body = "Failed to create session"
        /\ req[r].hOps = <<<<"insert", sha256(t)>>>>
        /\ C19_SessionCookiesOf(req[r]) = {}
        /\ t <= issued
        /\ sha256(t) \notin DOMAIN sessions
        /\ jar[t] = NoCookie

\* What holds of a request that handle passes to resolve(event) with an identity.
C23_IdentityIsTokenOwner ==
    \A r \in Reqs :
        (req[r].pc = "route" /\ req[r].locals.user # NullUser)
        => LET t == TokenOf(req[r]) IN
           /\ t \in IssuedTokens
           /\ t <= issued
           /\ issuedTo[t] \in Users
           /\ req[r].locals.user = issuedTo[t]
           /\ req[r].lookup = "found"
           /\ req[r].snap.id = sha256(t)
           /\ req[r].snap.userId = issuedTo[t]
           /\ req[r].locals.session = req[r].snap
           /\ req[r].now >= 0
           /\ req[r].now < req[r].snap.expiresAt
           /\ req[r].result = "valid"

\* The row a validation goes on with is the row the store held for the digest of
\* the presented token when getFullSession ran, and the clock value it tests is
\* the one it read.
C23_ReadFromStore ==
    /\ \A r \in Reqs :
          (req[r].pc = "handle" /\ req'[r].pc = "check")
          => LET id == sha256(TokenOf(req[r])) IN
             /\ id \in DOMAIN sessions
             /\ req'[r].snap = [id |-> id, userId |-> sessions[id].userId,
                                expiresAt |-> sessions[id].expiresAt]
             /\ req'[r].user = sessions[id].userId
    /\ \A r \in Reqs :
          (req[r].pc = "check" /\ req'[r].pc # "check")
          => req'[r].now = clock /\ req'[r].snap = req[r].snap

\* C23: the middleware attaches identity u to a request only if the presented
\* token was issued by a successful sign-in or sign-up for u, its session record
\* was in the store when read, and now < expiresAt held at the check; no token
\* ever authenticates as a user other than the one it was issued to.
C23_AuthenticationSound == [](C23_IdentityIsTokenOwner) /\ [][C23_ReadFromStore]_vars

\* A request is handed on with the identity of its token's owner after its
\* session was renewed, beside a request with an unknown token that got none.
C23_Witness ==
    \E r, q \in Reqs :
        /\ req[r].pc = "route" /\ req[r].locals.user \in Users
        /\ req[r].locals.user = issuedTo[TokenOf(req[r])]
        /\ req[r].now < req[r].snap.expiresAt
        /\ req[r].mwOps = <<<<"extend", req[r].snap.id>>>>
        /\ req[q].pc = "route" /\ req[q].cookie = <<JunkToken>>
        /\ req[q].locals = NullLocals

\* C24: a session that some validation has observed as Expired is never
\* afterwards validated as Valid, in any interleaving with a concurrent in-window
\* validation whose renewal write lands later and also when the delete issued on
\* expiry fails: a validation whose lookup runs after another request has found
\* the session expired does not return it as valid.
C24_ExpiredNeverValidAgain ==
    \A r \in Reqs :
        (req[r].pc = "route" /\ req[r].expiredAtLookup) => req[r].result # "valid"

\* Validation of the cookie of request q did not yield a session: no record, an
\* expired record, or an Err of a store call (lookup, expiry delete, renewal).
C25_NoSessionYielded(q) ==
    \/ q.lookup \in {"notfound", "unavailable"}
    \/ q.lookup = "found" /\ q.now >= q.snap.expiresAt
    \/ q.failed \in {"lookup", "delete", "extend"}

\* C25: the middleware issues a clear-cookie instruction exactly when a non-empty
\* session cookie was presented and validation did not yield a session (record not
\* found, expired, or any store error, including an error in the expiry delete or
\* in the renewal write); a request without a session cookie never receives a
\* clear-cookie instruction from it.
C25_ClearExactlyOnFailedValidation ==
    \A r \in Reqs :
        req[r].pc = "route"
        => /\ req[r].mwClear <=> (~NoSessionToken(req[r].cookie) /\ C25_NoSessionYielded(req[r]))
           /\ req[r].mwClear <=> (~NoSessionToken(req[r].cookie) /\ req[r].result # "valid")
           /\ req[r].mwClear <=> req[r].setCookies = <<ClearedCookie>>
           /\ ~req[r].mwClear <=> req[r].setCookies = <<>>
           /\ NoSessionToken(req[r].cookie) => req[r].setCookies = <<>>
           /\ req[r].mwClear => req[r].locals = NullLocals

\* A request whose renewal write failed is handed on with the clearing cookie,
\* beside a request without a session token that is handed on with none.
C25_Witness ==
    \E r, q \in Reqs :
        /\ req[r].pc = "route" /\ req[r].failed = "extend" /\ req[r].mwClear
        /\ req[r].setCookies = <<ClearedCookie>>
        /\ req[q].pc = "route" /\ NoSessionToken(req[q].cookie)
        /\ ~req[q].mwClear /\ req[q].setCookies = <<>>

\* C26: when the middleware hands a request to the route handler, locals.user and
\* locals.session are either both null or both non-null, on every path (no cookie,
\* validation success, validation failure); when non-null, session.userId
\* identifies the attached user.
C26_LocalsBothOrNeither ==
    \A r \in Reqs :
        req[r].pc = "route"
        => /\ (req[r].locals.user = NullUser) <=> (req[r].locals.session = NullSession)
           /\ req[r].locals.user # NullUser
                 => /\ req[r].locals.user \in Users
                    /\ req[r].locals.session.userId = req[r].locals.user
                    /\ req[r].locals.session.id = sha256(TokenOf(req[r]))
                    /\ req[r].result = "valid"
           /\ req[r].locals.user = NullUser
                 => \/ NoSessionToken(req[r].cookie) /\ req[r].result = "none"
                    \/ req[r].result \in {"anonymous", "err"}

\* One request handed on with both fields set, another, whose session had
\* expired, with both null.
C26_Witness ==
    \E r, q \in Reqs :
        /\ req[r].pc = "route" /\ req[r].result = "valid"
        /\ req[r].locals.user \in Users
        /\ req[r].locals.session.userId = req[r].locals.user
        /\ req[q].pc = "route" /\ req[q].result = "anonymous"
        /\ req[q].locals = NullLocals

\* The cookie a response carries for 'session': that of the last cookies.set.
C27_CarriedCookie(q) == q.setCookies[Len(q.setCookies)]

\* The step in which a sign-in or sign-up that came with a stale cookie answers.
C27_FreshCookieCarried ==
    \A r \in Reqs :
        (/\ req[r].pc = "create" /\ req'[r].status = 200
         /\ ~NoSessionToken(req[r].cookie) /\ req[r].locals = NullLocals)
        => LET fresh == SessionCookie(req[r].newToken, req[r].newSession.expiresAt) IN
           /\ req[r].mwClear
           /\ req[r].setCookies = <<ClearedCookie>>
           /\ req'[r].setCookies = <<ClearedCookie, fresh>>
           /\ C27_CarriedCookie(req'[r]) = fresh
           /\ fresh.value \in IssuedTokens /\ fresh.value # TokenOf(req[r])
           /\ fresh.expires = sessions'[sha256(fresh.value)].expiresAt
           /\ fresh.expires > clock => jar'[fresh.value] = fresh
           /\ TokenOf(req[r]) \in IssuedTokens => jar'[TokenOf(req[r])] = NoCookie

\* In the cookies of any request the clearing cookie of the middleware comes
\* before the session cookie of the handler, which is the last one written.
C27_ClearBeforeSet ==
    \A r \in Reqs : \A i \in 1..Len(req[r].setCookies) :
        req[r].setCookies[i].value \in IssuedTokens
        => /\ i = Len(req[r].setCookies)
           /\ req[r].kind \in {"signin", "signup"}
           /\ i > 1 => req[r].setCookies[i - 1] = ClearedCookie

\* C27: when a sign-in or sign-up request arrives with a stale session cookie,
\* the middleware's clear-cookie runs before the handler's set-cookie, so the
\* cookie carried by the successful response is the freshly issued token with
\* the new session's expiry, not a cleared cookie.
C27_StaleCookieReplaced == [](C27_ClearBeforeSet) /\ [][C27_FreshCookieCarried]_vars

\* A sign-up whose request had its cookie cleared by the middleware has answered
\* with the fresh token last; the client holds it, and holds nothing under the
\* token of an earlier session that is gone from the store.
C27_Witness ==
    \E r \in Reqs : \E old, new \in IssuedTokens :
        /\ old # new
        /\ req[r].pc = "done" /\ req[r].kind = "signup" /\ req[r].status = 200
        /\ sha256(new) \in DOMAIN sessions
        /\ req[r].setCookies =
              <<ClearedCookie, SessionCookie(new, sessions[sha256(new)].expiresAt)>>
        /\ jar[new] = C27_CarriedCookie(req[r])
        /\ issuedTo[old] \in Users
        /\ sha256(old) \notin DOMAIN sessions
        /\ jar[old] = NoCookie

\* The step in which the createSession of a sign-in or sign-up is applied: one
\* record is added, under a lookup id the store did not hold.
C28_SigninAddsOneRecord ==
    \A r \in Reqs :
        (req[r].pc = "create" /\ req'[r].status = 200)
        => LET new == req[r].newSession.id IN
           /\ new \notin DOMAIN sessions
           /\ DOMAIN sessions' = DOMAIN sessions \cup {new}
           /\ sessions'[new].userId = req[r].newSession.userId
           /\ \A id \in DOMAIN sessions : sessions'[id] = sessions[id]

\* The step in which sign-out answers: the record that goes is the one of the
\* requesting cookie, and it goes only when a session was attached and the
\* delete succeeded.
C28_SignoutDeletesOwnOnly ==
    \A r \in Reqs :
        (req[r].pc \in {"route", "invalidate"} /\ req'[r].pc = "done"
            /\ req'[r].kind = "signout")
        => /\ \A id \in DOMAIN sessions :
                 id # sha256(TokenOf(req[r]))
                 => id \in DOMAIN sessions' /\ sessions'[id] = sessions[id]
           /\ DOMAIN sessions' \subseteq DOMAIN sessions
           /\ (req[r].pc = "invalidate" /\ ~req'[r].hFailed)
                 => /\ req[r].locals.session.id = sha256(TokenOf(req[r]))
                    /\ DOMAIN sessions' = DOMAIN sessions \ {sha256(TokenOf(req[r]))}
           /\ (req[r].pc = "route" \/ req'[r].hFailed) => sessions' = sessions

\* C28: sessions of one user are independent: a sign-in creates a new session
\* record and leaves every existing session record (of that user and of others)
\* unchanged, and a sign-out deletes only the session attached to the requesting
\* cookie, so the user's other sessions remain valid.
C28_SessionsIndependent ==
    [][C28_SigninAddsOneRecord /\ C28_SignoutDeletesOwnOnly]_vars

\* A user signed in twice and signed out of one session; a request with the
\* token of the other session has been validated as that user.
C28_Witness ==
    \E r \in Reqs : \E out \in signedOut :
        /\ req[r].pc = "route" /\ req[r].result = "valid"
        /\ TokenOf(req[r]) \in IssuedTokens \ {out}
        /\ issuedTo[out] = issuedTo[TokenOf(req[r])]
        /\ req[r].locals.user = issuedTo[out]
        /\ sha256(out) \notin DOMAIN sessions
        /\ sha256(TokenOf(req[r])) \in DOMAIN sessions

\* The step in which the sign-out handler starts or answers.
C29_SignoutStep ==
    \A r \in Reqs :
        (req[r].pc = "route" /\ req'[r].kind = "signout")
        => /\ IF req[r].locals.session = NullSession
              THEN /\ req'[r].pc = "done"
                   /\ req'[r].hOps = <<>>
                   /\ sessions' = sessions
              ELSE /\ req'[r].pc = "invalidate"
                   /\ req'[r].hOps = << <<"delete", req[r].locals.session.id>> >>
                   /\ req'[r].setCookies = req[r].setCookies
           /\ req[r].staleAtLookup
                 => /\ req'[r].pc = "done" /\ req'[r].hOps = <<>>
                    /\ sessions' = sessions

\* The step in which invalidateSession returns to the sign-out handler.
C29_AfterInvalidate ==
    \A r \in Reqs :
        (req[r].pc = "invalidate" /\ req'[r].pc # "invalidate")
        => /\ req'[r].pc = "done"
           /\ req'[r].hOps = req[r].hOps
           /\ req'[r].hFailed => sessions' = sessions
           /\ TokenOf(req[r]) \in IssuedTokens => jar'[TokenOf(req[r])] = NoCookie

\* Every answer of sign-out: 200 { success: true }, the clearing cookie written
\* last, at most one delete issued.
C29_SignoutAnswer ==
    \A r \in Reqs :
        (req[r].pc = "done" /\ req[r].kind = "signout")
        => /\ req[r].status = 200 /\ req[r].body = "success"
           /\ req[r].setCookies # <<>>
           /\ req[r].setCookies[Len(req[r].setCookies)] = ClearedCookie
           /\ Len(req[r].hOps) <= 1
           /\ req[r].hFailed => Len(req[r].hOps) = 1

\* C29: the sign-out handler always clears the session cookie and responds
\* {success: true}, whether or not the request carried a valid session and whether
\* or not invalidateSession succeeded; it calls invalidateSession only when the
\* middleware attached a session, so repeating sign-out is idempotent and issues
\* no further delete.
C29_SignoutAlwaysClears ==
    [](C29_SignoutAnswer) /\ [][C29_SignoutStep /\ C29_AfterInvalidate]_vars

\* A sign-out whose invalidateSession failed and a sign-out that came without an
\* accepted session have both answered with success and the clearing cookie; the
\* second issued no delete.
C29_Witness ==
    \E r, q \in Reqs :
        /\ req[r].pc = "done" /\ req[r].kind = "signout" /\ req[r].hFailed
        /\ req[r].status = 200 /\ req[r].setCookies = <<ClearedCookie>>
        /\ req[q].pc = "done" /\ req[q].kind = "signout" /\ req[q].hOps = <<>>
        /\ req[q].status = 200 /\ req[q].setCookies = <<ClearedCookie, ClearedCookie>>

\* The load of the chat page has ended.
C30_Loaded == page.pc = "done"

\* The chat response was a failure other than 404.
C30_ChatFailure == page.chatStatus \notin {0, 200, 404}

C30_LoadOutcome ==
    /\ page.pc \in {"mount", "userFetch", "userJson", "chatFetch", "chatJson"}
          => /\ page.loading
             /\ page.error = NoError /\ page.chat = NullChat /\ page.goneTo = "none"
    /\ C30_Loaded
          => /\ ~page.loading
             /\ ~(page.error # NoError /\ page.chat # NullChat)
             /\ page.error # NoError
                   <=> (page.fetchThrew \/ page.bodyThrew \/ C30_ChatFailure)
             /\ page.chat # NullChat <=> (page.chatStatus = 200 /\ ~page.bodyThrew)
             /\ page.chat # NullChat => page.chat.id = page.chatId
             /\ page.goneTo = "/" <=> page.chatStatus = 404
             /\ page.chatStatus = 404 => (page.error = NoError /\ page.chat = NullChat)

=============================================================================
